---- MODULE Spec2Model ----
(***************************************************************************)
(* Model of scripts/ghidra_decompile.py: the headless report script        *)
(* (get_entry_point, decompile_function, get_disassembly, get_symbols,     *)
(* get_functions, analyze_program, the main block) and its two mutation    *)
(* operations (rename_symbol, set_data_type), run against an abstract      *)
(* analysis engine (currentProgram, its symbol table, listing, function    *)
(* manager and decompiler).                                                *)
(***************************************************************************)
EXTENDS Integers, Sequences, FiniteSets, TLC

\* ------------------------------------------------------------------ bounds
\* Highest address of the image; the address space is 0..MaxAddr.
MaxAddr == 3
\* Largest explicit bound passed to get_disassembly by a direct call (the
\* smallest is -1, an empty range).
MaxN == 3

\* default of num_instructions
DefaultNumInstructions == 100

Addr == 0..MaxAddr

VARIABLES
  programPresent,  \* currentProgram is not None
  nameRaises,      \* currentProgram.getName() raises
  faultStage,      \* the stage of the pipeline at which the engine raises, or "none"
  entryPoints,     \* getExternalEntryPointIterator(): sequence of addresses
  minAddress,      \* currentProgram.getMinAddress()
  functionList,    \* getFunctions(True): sequence of function objects
  decompOutcome,   \* what decompileFunction returns for any function
  symbolTable,     \* getAllSymbols(False): sequence of symbol objects
  instrAt,         \* listing: address -> instruction starting there, or NoInstr
  dataAt,          \* listing: address -> data type of the data there, or NoData
  pc,              \* position of the main block
  result,          \* the main block's variable `result`
  output,          \* lines printed so far
  call             \* the last operation invoked: its name, inputs, outcome, pre-state

engineVars == <<programPresent, nameRaises, faultStage, entryPoints, minAddress,
                functionList, decompOutcome, symbolTable, instrAt, dataAt>>
scriptVars == <<pc, result, output>>
vars == <<programPresent, nameRaises, faultStage, entryPoints, minAddress,
          functionList, decompOutcome, symbolTable, instrAt, dataAt,
          pc, result, output, call>>

\* ------------------------------------------------------------ basic values
\* Python's None
None == [tag |-> "None"]

\* A call either returns a value or raises an exception carrying a text.
Return(v) == [kind |-> "return", value |-> v]
Raise(text) == [kind |-> "raise", fault |-> text]

HexDigit == <<"0", "1", "2", "3", "4", "5", "6", "7",
              "8", "9", "a", "b", "c", "d", "e", "f">>

\* '%02x' % (b & 0xff)
Hex2(b) == LET u == b % 256 IN HexDigit[(u \div 16) + 1] \o HexDigit[(u % 16) + 1]

\* str(address): eight hex digits (addresses of the model fit in one byte)
AddrStr(a) == "000000" \o Hex2(a)

\* Address texts a caller may pass, and AddressFactory.getAddress on them.
ParsableAddr == 0..(MaxAddr + 1)
BadAddressText == "zz"
AddressTexts == {AddrStr(a) : a \in ParsableAddr} \cup {BadAddressText}
getAddress(address_str) ==
  IF \E a \in ParsableAddr : AddrStr(a) = address_str
    THEN Return(CHOOSE a \in ParsableAddr : AddrStr(a) = address_str)
    ELSE Raise("AddressFormatException: " \o address_str)

\* DataTypeParser.parse
KnownTypes == {"int", "char"}
BadTypeText == "struct {"
TypeTexts == KnownTypes \cup {BadTypeText}
parse(type_str) ==
  IF type_str \in KnownTypes
    THEN Return([type |-> type_str])
    ELSE Raise("InvalidDataTypeException: " \o type_str)

\* ------------------------------------------------------------ engine values
NoInstr == [tag |-> "NoInstr"]
\* Instruction templates: mnemonic, operand text, raw (signed) bytes, EOL comment
\* (<<>> when the listing holds none).
RetInstr == [mnemonic |-> "RET", operands |-> "", bytes |-> <<-61>>, eol |-> <<>>]
XorInstr == [mnemonic |-> "XOR", operands |-> "EAX, EAX", bytes |-> <<49, -64>>,
             eol |-> <<"clear">>]
Instrs == {RetInstr, XorInstr}
InstrLength(i) == Len(i.bytes)

NoData == [tag |-> "NoData"]
UndefinedData == [type |-> "undefined"]
DataValues == {UndefinedData} \cup {[type |-> t] : t \in KnownTypes}

\* listing.getInstructionAt(a): the instruction starting at a, None outside the image
getInstructionAt(a) ==
  IF a \in DOMAIN instrAt /\ instrAt[a] # NoInstr THEN instrAt[a] ELSE None

\* listing.getDataAt(a)
getDataAt(a) ==
  IF a \in DOMAIN dataAt /\ dataAt[a] # NoData THEN dataAt[a] ELSE None

\* function_manager.getFunctionContaining(a)
getFunctionContaining(a) ==
  IF \E i \in 1..Len(functionList) :
        functionList[i].entry <= a /\ a <= functionList[i].last
    THEN functionList[CHOOSE i \in 1..Len(functionList) :
        /\ functionList[i].entry <= a /\ a <= functionList[i].last
        /\ \A j \in 1..(i - 1) :
             ~(functionList[j].entry <= a /\ a <= functionList[j].last)]
    ELSE None

\* str(function.getBody())
BodyStr(f) == "[[" \o AddrStr(f.entry) \o ", " \o AddrStr(f.last) \o "]]"

\* The text of the exception the engine raises at a stage.
FaultText(stage) == "engine fault: " \o stage
NoneFault == "'NoneType' object has no attribute"

Stages == {"open", "entry", "lookup", "decompile", "functions", "symbols",
           "disasm", "metadata"}

\* An engine accessor used at `stage`: raises when the program handle is None
\* or when the engine faults at that stage.
EngineRaises(stage) == ~programPresent \/ faultStage = stage
EngineFault(stage) ==
  IF ~programPresent THEN Raise(NoneFault) ELSE Raise(FaultText(stage))

\* ------------------------------------------------------------ get_entry_point
get_entry_point_min ==
  IF EngineRaises("entry") THEN EngineFault("entry") ELSE Return(minAddress)

\* The first external entry point when the table has one, else the image's
\* minimum address.
get_entry_point ==
  IF EngineRaises("entry") THEN EngineFault("entry")
  ELSE IF entryPoints # <<>> THEN Return(Head(entryPoints))
  ELSE Return(minAddress)

\* --------------------------------------------------------- decompile_function
DecompiledRecord(function, decomp_code) ==
  [name |-> function.name,
   entry_point |-> AddrStr(function.entry),
   code |-> decomp_code.C,
   signature |-> function.signature,
   body |-> BodyStr(function)]

decompile_function_keep_incomplete(function) ==
  IF function = None THEN [outcome |-> Return(None), called |-> FALSE]
  ELSE IF faultStage = "decompile"
    THEN [outcome |-> Raise(FaultText("decompile")), called |-> TRUE]
  ELSE LET results == decompOutcome IN
    IF results # None /\ results.fn # None
      THEN [outcome |-> Return(DecompiledRecord(function, results.fn)),
            called |-> TRUE]
      ELSE [outcome |-> Return(None), called |-> TRUE]

\* outcome: what the function returns or raises; called: whether
\* decompiler.decompileFunction was invoked. The function reads the decompiler
\* and its argument only, never currentProgram: it raises only when the
\* decompiler call itself does.
decompile_function(function) ==
  IF function = None THEN [outcome |-> Return(None), called |-> FALSE]
  ELSE IF faultStage = "decompile"
    THEN [outcome |-> Raise(FaultText("decompile")), called |-> TRUE]
  ELSE LET results == decompOutcome IN
    IF results # None /\ results.completed /\ results.fn # None
      THEN [outcome |-> Return(DecompiledRecord(function, results.fn)),
            called |-> TRUE]
      ELSE [outcome |-> Return(None), called |-> TRUE]

\* ------------------------------------------------------------ get_disassembly
RECURSIVE JoinHex(_)
\* ' '.join(['%02x' % (b & 0xff) for b in instr.getBytes()])
JoinHex(bytes) ==
  IF bytes = <<>> THEN ""
  ELSE IF Len(bytes) = 1 THEN Hex2(bytes[1])
  ELSE Hex2(bytes[1]) \o " " \o JoinHex(Tail(bytes))

InstructionRecord(current_addr, instr) ==
  [address |-> AddrStr(current_addr),
   mnemonic |-> instr.mnemonic,
   operands |-> instr.operands,
   bytes |-> JoinHex(instr.bytes),
   comment |-> IF instr.eol = <<>> THEN "" ELSE instr.eol[1]]

NextAddrByOne(current_addr, instr) == current_addr + 1

\* current_addr = instr.getAddress().add(instr.getLength())
NextAddr(current_addr, instr) == current_addr + InstrLength(instr)

RECURSIVE WalkFrom(_, _, _)
\* The loop of get_disassembly, `for _ in range(remaining)`: a bound of zero
\* or less runs the body not at all.
WalkFrom(current_addr, remaining, instructions) ==
  IF remaining <= 0 THEN instructions
  ELSE LET instr == getInstructionAt(current_addr) IN
    IF instr = None THEN instructions
    ELSE WalkFrom(NextAddr(current_addr, instr), remaining - 1,
                  Append(instructions, InstructionRecord(current_addr, instr)))

get_disassembly(address, num_instructions) ==
  IF EngineRaises("disasm") THEN EngineFault("disasm")
  ELSE Return(WalkFrom(address, num_instructions, <<>>))

\* ---------------------------------------------------- get_symbols, get_functions
SymAddrStr(symbol) ==
  IF symbol.external THEN "EXTERNAL:" \o AddrStr(symbol.address)
  ELSE AddrStr(symbol.address)

SymbolRecord(symbol) ==
  [name |-> symbol.name, address |-> SymAddrStr(symbol),
   type |-> symbol.type, source |-> symbol.source]

IsReportedAlways(symbol) == TRUE

\* if not symbol.isExternal()
IsReported(symbol) == ~symbol.external

RECURSIVE SymbolRecords(_)
\* The loop of get_symbols over the symbols still to visit.
SymbolRecords(symbols) ==
  IF symbols = <<>> THEN <<>>
  ELSE IF IsReported(Head(symbols))
    THEN <<SymbolRecord(Head(symbols))>> \o SymbolRecords(Tail(symbols))
    ELSE SymbolRecords(Tail(symbols))

get_symbols ==
  IF EngineRaises("symbols") THEN EngineFault("symbols")
  ELSE Return(SymbolRecords(symbolTable))

FunctionRecord(func) ==
  [name |-> func.name, entry_point |-> AddrStr(func.entry),
   signature |-> func.signature, body_range |-> BodyStr(func)]

get_functions ==
  IF EngineRaises("functions") THEN EngineFault("functions")
  ELSE Return([i \in 1..Len(functionList) |-> FunctionRecord(functionList[i])])

\* --------------------------------------------------------------- rename_symbol
\* symbol_table.getSymbols(address): the table positions of the symbols bound
\* at a memory address, visited in ascending position.
SymbolsAt(address) ==
  {i \in 1..Len(symbolTable) :
     ~symbolTable[i].external /\ symbolTable[i].address = address}

FirstOf(S) == CHOOSE i \in S : \A j \in S : i <= j

\* symbol.setName(new_name, SourceType.USER_DEFINED) on the symbol at position i
setName(i, new_name) ==
  [symbolTable EXCEPT ![i] = [@ EXCEPT !.name = new_name,
                                       !.source = "USER_DEFINED"]]

\* The symbol the loop of rename_symbol renames: the first it visits.
RenameTarget(at) == FirstOf(at)

rename_symbol_try_all(address_str, new_name, engineFault) ==
  LET raised(text) == [outcome |-> Raise(text), symbols |-> symbolTable] IN
  IF ~programPresent THEN raised(NoneFault)
  ELSE LET address == getAddress(address_str) IN
    IF address.kind = "raise" THEN raised(address.fault)
    ELSE IF engineFault = "lookup" THEN raised(FaultText("getSymbols"))
    ELSE LET at == SymbolsAt(address.value) IN
      IF at = {} THEN
        [outcome |-> Return([success |-> FALSE,
                             message |-> "No symbol found at address"]),
         symbols |-> symbolTable]
      ELSE IF engineFault = "mutate" THEN raised(FaultText("setName"))
      ELSE
        [outcome |-> Return([success |-> TRUE,
                             message |-> "Renamed to " \o new_name]),
         symbols |-> [i \in 1..Len(symbolTable) |->
                        IF i \in at THEN setName(i, new_name)[i]
                        ELSE symbolTable[i]]]

\* The try block of rename_symbol. engineFault is the engine's answer to this
\* call: "lookup" (getSymbols raises), "mutate" (setName raises, changing
\* nothing) or "none". symbols is the symbol table after the block.
rename_symbol_try(address_str, new_name, engineFault) ==
  LET raised(text) == [outcome |-> Raise(text), symbols |-> symbolTable] IN
  IF ~programPresent THEN raised(NoneFault)
  ELSE LET address == getAddress(address_str) IN
    IF address.kind = "raise" THEN raised(address.fault)
    ELSE IF engineFault = "lookup" THEN raised(FaultText("getSymbols"))
    ELSE LET at == SymbolsAt(address.value) IN
      IF at = {} THEN
        [outcome |-> Return([success |-> FALSE,
                             message |-> "No symbol found at address"]),
         symbols |-> symbolTable]
      ELSE IF engineFault = "mutate" THEN raised(FaultText("setName"))
      ELSE
        [outcome |-> Return([success |-> TRUE,
                             message |-> "Renamed to " \o new_name]),
         symbols |-> setName(RenameTarget(at), new_name)]

rename_symbol_reraise(address_str, new_name, engineFault) ==
  LET t == rename_symbol_try(address_str, new_name, engineFault) IN
  [outcome |-> t.outcome, symbols |-> t.symbols,
   fault |-> IF t.outcome.kind = "raise" THEN <<t.outcome.fault>> ELSE <<>>]

\* rename_symbol: the try block and its `except Exception as e` handler.
\* fault is the exception raised inside the try block, <<>> when none was.
rename_symbol(address_str, new_name, engineFault) ==
  LET t == rename_symbol_try(address_str, new_name, engineFault) IN
  IF t.outcome.kind = "raise"
    THEN [outcome |-> Return([success |-> FALSE, message |-> t.outcome.fault]),
          symbols |-> t.symbols, fault |-> <<t.outcome.fault>>]
    ELSE [outcome |-> t.outcome, symbols |-> t.symbols, fault |-> <<>>]

\* --------------------------------------------------------------- set_data_type
\* listing.createData(address, data_type)
createData(address, data_type) == [dataAt EXCEPT ![address] = data_type]

\* The try block of set_data_type. parsed: whether parser.parse was invoked;
\* data: the listing's data after the block.
set_data_type_try(address_str, type_str, engineFault) ==
  LET raised(text, p) ==
        [outcome |-> Raise(text), data |-> dataAt, parsed |-> p] IN
  IF ~programPresent THEN raised(NoneFault, FALSE)
  ELSE LET address == getAddress(address_str) IN
    IF address.kind = "raise" THEN raised(address.fault, FALSE)
    ELSE LET data_type == parse(type_str) IN
      IF data_type.kind = "raise" THEN raised(data_type.fault, TRUE)
      ELSE IF engineFault = "lookup" THEN raised(FaultText("getDataAt"), TRUE)
      ELSE LET data == getDataAt(address.value) IN
        IF data # None THEN
          IF engineFault = "mutate" THEN raised(FaultText("createData"), TRUE)
          ELSE [outcome |-> Return([success |-> TRUE,
                                    message |-> "Set type to " \o type_str]),
                data |-> createData(address.value, data_type.value),
                parsed |-> TRUE]
        ELSE [outcome |-> Return([success |-> FALSE,
                                  message |-> "No data at address"]),
              data |-> dataAt, parsed |-> TRUE]

\* set_data_type: the try block and its `except Exception as e` handler.
set_data_type(address_str, type_str, engineFault) ==
  LET t == set_data_type_try(address_str, type_str, engineFault) IN
  IF t.outcome.kind = "raise"
    THEN [outcome |-> Return([success |-> FALSE, message |-> t.outcome.fault]),
          data |-> t.data, parsed |-> t.parsed, fault |-> <<t.outcome.fault>>]
    ELSE [outcome |-> t.outcome, data |-> t.data, parsed |-> t.parsed,
          fault |-> <<>>]

\* ------------------------------------------------------------ analyze_program
ProgramName == "a.out"
ImageBaseText == "00000000"
LanguageText == "x86:LE:32:default"
UnknownName == "unknown"

\* The try block of analyze_program, stage by stage. called: whether the
\* decompiler was asked to decompile.
analyze_program_try ==
  LET raised(o, c) == [outcome |-> o, called |-> c] IN
  IF faultStage = "open" THEN raised(Raise(FaultText("open")), FALSE)
  ELSE LET entry == get_entry_point IN
  IF entry.kind = "raise" THEN raised(entry, FALSE)
  ELSE LET entry_addr == entry.value IN
  IF EngineRaises("lookup") THEN raised(EngineFault("lookup"), FALSE)
  ELSE LET entry_function == getFunctionContaining(entry_addr)
           dec == IF entry_function # None
                    THEN decompile_function(entry_function)
                    ELSE [outcome |-> Return(None), called |-> FALSE]
  IN
  IF dec.outcome.kind = "raise" THEN raised(dec.outcome, dec.called)
  ELSE LET functions == get_functions IN
  IF functions.kind = "raise" THEN raised(functions, dec.called)
  ELSE LET symbols == get_symbols IN
  IF symbols.kind = "raise" THEN raised(symbols, dec.called)
  ELSE LET disassembly == get_disassembly(entry_addr, DefaultNumInstructions) IN
  IF disassembly.kind = "raise" THEN raised(disassembly, dec.called)
  ELSE IF nameRaises THEN raised(Raise(FaultText("getName")), dec.called)
  ELSE IF EngineRaises("metadata") THEN raised(EngineFault("metadata"), dec.called)
  ELSE [outcome |-> Return([program_name |-> ProgramName,
                            entry_point |-> AddrStr(entry_addr),
                            entry_function |-> dec.outcome.value,
                            functions |-> functions.value,
                            symbols |-> symbols.value,
                            disassembly |-> disassembly.value,
                            image_base |-> ImageBaseText,
                            language |-> LanguageText]),
        called |-> dec.called]

ErrorReport(text, name) ==
  [error |-> TRUE, message |-> text,
   traceback |-> "Traceback (most recent call last): " \o text,
   program_name |-> name]

\* analyze_program: the try block and its handler. The handler evaluates
\* currentProgram.getName() if currentProgram else 'unknown'.
analyze_program ==
  LET t == analyze_program_try IN
  IF t.outcome.kind = "return" THEN t
  ELSE IF programPresent
    THEN IF nameRaises
      THEN [outcome |-> Raise(FaultText("getName")), called |-> t.called]
      ELSE [outcome |-> Return(ErrorReport(t.outcome.fault, ProgramName)),
            called |-> t.called]
    ELSE [outcome |-> Return(ErrorReport(t.outcome.fault, UnknownName)),
          called |-> t.called]

\* ------------------------------------------------------------------ main block
StartMarker == "__NEOGHIDRA_JSON_START__"
EndMarker == "__NEOGHIDRA_JSON_END__"
\* json.dumps(result, indent=2): the document, tagged as one printed item
JsonDocument(r) == [json |-> r]

NoCall == [op |-> "none"]

\* result = analyze_program()
Analyze ==
  /\ pc = "start"
  /\ LET r == analyze_program IN
      /\ call' = [op |-> "analyze_program", outcome |-> r.outcome,
                  called |-> r.called]
      /\ IF r.outcome.kind = "raise"
           THEN pc' = "crashed" /\ result' = None
           ELSE pc' = "analyzed" /\ result' = r.outcome.value
  /\ UNCHANGED <<engineVars, output>>

\* print("__NEOGHIDRA_JSON_START__")
PrintStart ==
  /\ pc = "analyzed"
  /\ output' = Append(output, StartMarker)
  /\ pc' = "marked"
  /\ UNCHANGED <<engineVars, result, call>>

\* print(json.dumps(result, indent=2))
PrintJson ==
  /\ pc = "marked"
  /\ output' = Append(output, JsonDocument(result))
  /\ pc' = "dumped"
  /\ UNCHANGED <<engineVars, result, call>>

\* print("__NEOGHIDRA_JSON_END__")
PrintEnd ==
  /\ pc = "dumped"
  /\ output' = Append(output, EndMarker)
  /\ pc' = "done"
  /\ UNCHANGED <<engineVars, result, call>>

\* The script is run once per request against the engine's program database:
\* the next headless invocation starts afresh on the engine state left behind.
NewInvocation ==
  /\ pc \in {"returned", "done", "crashed"}
  /\ pc' = "start"
  /\ result' = None
  /\ output' = <<>>
  /\ call' = NoCall
  /\ UNCHANGED engineVars

\* ------------------------------------------------- direct calls of the functions
\* Each invocation serves one request: the report, or one direct call.
CallGetEntryPoint ==
  /\ pc = "start"
  /\ call' = [op |-> "get_entry_point", outcome |-> get_entry_point]
  /\ pc' = "returned"
  /\ UNCHANGED <<engineVars, result, output>>

CallDecompileFunction ==
  /\ pc = "start"
  /\ \E function \in {None} \cup {functionList[i] : i \in 1..Len(functionList)} :
       LET r == decompile_function(function) IN
       call' = [op |-> "decompile_function", function |-> function,
                outcome |-> r.outcome, called |-> r.called]
  /\ pc' = "returned"
  /\ UNCHANGED <<engineVars, result, output>>

CallGetDisassembly ==
  /\ pc = "start"
  /\ \E address \in ParsableAddr, num_instructions \in (-1)..MaxN :
       call' = [op |-> "get_disassembly", address |-> address,
                num_instructions |-> num_instructions,
                outcome |-> get_disassembly(address, num_instructions)]
  /\ pc' = "returned"
  /\ UNCHANGED <<engineVars, result, output>>

EngineAnswers == {"none", "lookup", "mutate"}
NewNames == {"main", "renamed"}

RenameSymbol ==
  /\ pc = "start"
  /\ \E address_str \in AddressTexts, new_name \in NewNames,
        engineFault \in EngineAnswers :
       LET r == rename_symbol(address_str, new_name, engineFault) IN
       /\ symbolTable' = r.symbols
       /\ pc' = "returned"
       /\ call' = [op |-> "rename_symbol", address_str |-> address_str,
                   new_name |-> new_name, engineFault |-> engineFault,
                   outcome |-> r.outcome, fault |-> r.fault,
                   symbolsBefore |-> symbolTable, dataBefore |-> dataAt]
  /\ UNCHANGED <<programPresent, nameRaises, faultStage, entryPoints, minAddress,
                 functionList, decompOutcome, instrAt, dataAt, result, output>>

SetDataType ==
  /\ pc = "start"
  /\ \E address_str \in AddressTexts, type_str \in TypeTexts,
        engineFault \in EngineAnswers :
       LET r == set_data_type(address_str, type_str, engineFault) IN
       /\ dataAt' = r.data
       /\ pc' = "returned"
       /\ call' = [op |-> "set_data_type", address_str |-> address_str,
                   type_str |-> type_str, engineFault |-> engineFault,
                   outcome |-> r.outcome, fault |-> r.fault,
                   parsed |-> r.parsed,
                   symbolsBefore |-> symbolTable, dataBefore |-> dataAt]
  /\ UNCHANGED <<programPresent, nameRaises, faultStage, entryPoints, minAddress,
                 functionList, decompOutcome, symbolTable, instrAt, result, output>>

\* --------------------------------------------------------------- engine states
\* Functions of an image whose minimum address is m.
FuncA(m) == [name |-> "entry", entry |-> m, last |-> m + 1,
             signature |-> "undefined entry(void)"]
FuncB(m) == [name |-> "FUN_b", entry |-> m + 2, last |-> MaxAddr,
             signature |-> "int FUN_b(int)"]
FunctionLists(m) == {<<>>, <<FuncA(m)>>, <<FuncB(m)>>, <<FuncA(m), FuncB(m)>>}

\* A two-byte instruction at m, then one-byte instructions from m + 2 on.
BaseListing(m) ==
  [a \in Addr |-> IF a = m THEN XorInstr
                  ELSE IF a >= m + 2 THEN RetInstr ELSE NoInstr]
NoDataAnywhere == [a \in Addr |-> NoData]

\* What decompileFunction may return: no results object, or one with its
\* completion flag and its DecompiledFunction (None when it printed nothing).
CompleteText == [C |-> "void entry(void) { return; }"]
PartialText == [C |-> "void entry(void) {"]
DecompOutcomes ==
  {None,
   [completed |-> FALSE, fn |-> None],
   [completed |-> FALSE, fn |-> PartialText],
   [completed |-> TRUE, fn |-> None],
   [completed |-> TRUE, fn |-> CompleteText]}

\* Entry-point tables: up to two distinct addresses of the image.
EntryTables(m) ==
  {<<>>} \cup {<<a>> : a \in m..MaxAddr}
         \cup {e \in {<<a, b>> : a \in m..MaxAddr, b \in m..MaxAddr} : e[1] # e[2]}

\* Instructions do not overlap and end inside the image.
WellFormedListing(l) ==
  \A a \in Addr :
    l[a] # NoInstr =>
      /\ a + InstrLength(l[a]) - 1 <= MaxAddr
      /\ \A b \in (a + 1)..(a + InstrLength(l[a]) - 1) : l[b] = NoInstr
Listings == {l \in [Addr -> Instrs \cup {NoInstr}] : WellFormedListing(l)}

\* Data sits only where no instruction does.
Covered(l, a) ==
  \E b \in Addr : l[b] # NoInstr /\ b <= a /\ a <= b + InstrLength(l[b]) - 1
DataLayouts(l) ==
  {d \in [Addr -> DataValues \cup {NoData}] :
     \A a \in Addr : Covered(l, a) => d[a] = NoData}

SymMain == [name |-> "main", address |-> 0, external |-> FALSE,
            type |-> "Function", source |-> "ANALYSIS"]
SymAlias == [name |-> "start", address |-> 0, external |-> FALSE,
             type |-> "Label", source |-> "IMPORTED"]
SymData == [name |-> "DAT_1", address |-> 1, external |-> FALSE,
            type |-> "Label", source |-> "DEFAULT"]
SymPrintf == [name |-> "printf", address |-> 1, external |-> TRUE,
              type |-> "Function", source |-> "IMPORTED"]
SymbolPool == {SymMain, SymAlias, SymData, SymPrintf}
Distinct(t) == \A i, j \in 1..Len(t) : i # j => t[i] # t[j]
SymbolTables ==
  {t \in UNION {[1..n -> SymbolPool] : n \in 0..3} : Distinct(t)}
BaseSymbols == <<SymMain, SymPrintf, SymData>>

ScriptInit ==
  /\ pc = "start"
  /\ result = None
  /\ output = <<>>
  /\ call = NoCall

\* Report pipeline: every fault stage, program handle, entry table, function
\* set and decompiler outcome, over a fixed listing and symbol table.
Init ==
  /\ programPresent \in BOOLEAN
  /\ nameRaises \in BOOLEAN
  /\ faultStage \in Stages \cup {"none"}
  /\ ~programPresent => ~nameRaises /\ faultStage = "none"
  /\ minAddress \in {0, 1}
  /\ entryPoints \in EntryTables(minAddress)
  /\ functionList \in FunctionLists(minAddress)
  /\ decompOutcome \in DecompOutcomes
  /\ symbolTable = BaseSymbols
  /\ instrAt = BaseListing(minAddress)
  /\ dataAt = NoDataAnywhere
  /\ ScriptInit

\* Mutation operations and the disassembly walk: every listing, data layout,
\* symbol table and fault stage (one of the four varied at a time).
InitOps ==
  /\ programPresent = TRUE
  /\ nameRaises = FALSE
  /\ faultStage \in Stages \cup {"none"}
  /\ minAddress = 0
  /\ entryPoints = <<>>
  /\ functionList = <<FuncA(0)>>
  /\ decompOutcome = [completed |-> TRUE, fn |-> CompleteText]
  /\ \/ /\ faultStage = "none"
        /\ instrAt \in Listings
        /\ dataAt = NoDataAnywhere
        /\ symbolTable = BaseSymbols
     \/ /\ faultStage = "none"
        /\ instrAt = BaseListing(2)
        /\ dataAt \in DataLayouts(instrAt)
        /\ symbolTable = BaseSymbols
     \/ /\ faultStage = "none"
        /\ instrAt = BaseListing(0)
        /\ dataAt = NoDataAnywhere
        /\ symbolTable \in SymbolTables
     \/ /\ faultStage # "none"
        /\ instrAt = BaseListing(0)
        /\ dataAt = NoDataAnywhere
        /\ symbolTable = BaseSymbols
  /\ ScriptInit

Next ==
  \/ Analyze
  \/ PrintStart
  \/ PrintJson
  \/ PrintEnd
  \/ CallGetEntryPoint
  \/ CallDecompileFunction
  \/ NewInvocation

NextOps ==
  \/ Analyze
  \/ PrintStart
  \/ PrintJson
  \/ PrintEnd
  \/ CallGetDisassembly
  \/ RenameSymbol
  \/ SetDataType
  \/ NewInvocation

Spec == Init /\ [][Next]_vars
SpecOps == InitOps /\ [][NextOps]_vars

\* ----------------------------------------------------------------- properties
ReportFields == {"program_name", "entry_point", "entry_function", "functions",
                 "symbols", "disassembly", "image_base", "language"}
IsAnalysisReport(r) == DOMAIN r = ReportFields
IsErrorReport(r) ==
  /\ "error" \in DOMAIN r
  /\ r.error = TRUE
  /\ r.message # ""
  /\ DOMAIN r \cap (ReportFields \ {"program_name"}) = {}

\* The address analyze_program seeds the analysis with.
SeedAddress == IF entryPoints # <<>> THEN entryPoints[1] ELSE minAddress
SeedInFunction ==
  \E i \in 1..Len(functionList) :
    functionList[i].entry <= SeedAddress /\ SeedAddress <= functionList[i].last

\* The engine raises at some stage the pipeline reaches.
SomeStageFaults ==
  \/ ~programPresent
  \/ nameRaises
  \/ faultStage \in Stages \ {"decompile"}
  \/ faultStage = "decompile" /\ SeedInFunction

\* C1: analyze_program always returns an object, which is either a full
\* AnalysisReport (all eight fields, no error key) or an ErrorReport (error ==
\* true, non-empty message, none of the report fields); and whenever the engine
\* raises at any stage, the ErrorReport is what it returns.
C1_TwoShapes ==
  call.op = "analyze_program" =>
    /\ call.outcome.kind = "return"
    /\ IsAnalysisReport(call.outcome.value) \/ IsErrorReport(call.outcome.value)
    /\ SomeStageFaults => IsErrorReport(call.outcome.value)

\* C2: analyze_program never lets an exception escape, and its ErrorReport
\* names the program 'unknown' whenever the program handle is unusable (absent,
\* or its name accessor raises).
C2_NoEscape ==
  call.op = "analyze_program" =>
    /\ call.outcome.kind = "return"
    /\ (~programPresent \/ nameRaises) =>
         /\ IsErrorReport(call.outcome.value)
         /\ call.outcome.value.program_name = UnknownName

\* C3: every run of the main block prints the start marker, then one JSON
\* document, then the end marker, and ends without an unhandled exception.
C3_MarkedDocument ==
  /\ pc # "crashed"
  /\ pc = "marked" => output = <<StartMarker>>
  /\ pc = "dumped" => output = <<StartMarker, JsonDocument(result)>>
  /\ pc = "done" =>
       /\ output = <<StartMarker, JsonDocument(result), EndMarker>>
       /\ IsAnalysisReport(result) \/ IsErrorReport(result)

\* The numeric address a record's address text stands for.
RecordAddr(rec) == getAddress(rec.address).value

\* C4: absent an engine fault, get_disassembly(address, n) returns at most n
\* records, the first at `address`, each next one at the previous address plus
\* the previous instruction's length (so strictly increasing), every one an
\* instruction of the listing; and it stops only when n records exist or no
\* instruction starts at the cursor. It returns, never raises, on a gap or at
\* the end of the image.
C4_BoundedWalk ==
  (/\ call.op = "get_disassembly"
   /\ call.num_instructions >= 0
   /\ faultStage # "disasm") =>
    /\ call.outcome.kind = "return"
    /\ LET recs == call.outcome.value
           n == call.num_instructions
           cursor == IF recs = <<>> THEN call.address
                     ELSE RecordAddr(recs[Len(recs)])
                            + InstrLength(instrAt[RecordAddr(recs[Len(recs)])])
       IN
       /\ Len(recs) <= n
       /\ recs # <<>> => RecordAddr(recs[1]) = call.address
       /\ \A i \in 1..Len(recs) :
            /\ RecordAddr(recs[i]) \in Addr
            /\ instrAt[RecordAddr(recs[i])] # NoInstr
            /\ recs[i].mnemonic = instrAt[RecordAddr(recs[i])].mnemonic
       /\ \A i \in 1..(Len(recs) - 1) :
            /\ RecordAddr(recs[i + 1]) =
                 RecordAddr(recs[i]) + InstrLength(instrAt[RecordAddr(recs[i])])
            /\ RecordAddr(recs[i + 1]) > RecordAddr(recs[i])
       /\ Len(recs) = n \/ cursor \notin Addr \/ instrAt[cursor] = NoInstr

\* A walk of two instructions, the first two bytes long, cut short by a gap.
C4_Witness ==
  /\ call.op = "get_disassembly"
  /\ call.outcome.kind = "return"
  /\ Len(call.outcome.value) = 2
  /\ call.num_instructions = 3
  /\ call.outcome.value[1].mnemonic = "XOR"

\* C5: a rename_symbol call whose address text resolves and which meets no
\* engine fault: with no symbol bound at the address it fails and the table is
\* as before; with one or more it renames the first of them only, marks it
\* USER_DEFINED, leaves every other symbol as it was and succeeds.
C5_RenameFirstOnly ==
  (/\ call.op = "rename_symbol"
   /\ call.address_str # BadAddressText
   /\ call.engineFault = "none") =>
    LET before == call.symbolsBefore
        a == getAddress(call.address_str).value
        at == {i \in 1..Len(before) :
                 ~before[i].external /\ before[i].address = a}
    IN
    /\ dataAt = call.dataBefore
    /\ IF at = {}
         THEN /\ call.outcome.value.success = FALSE
              /\ symbolTable = before
         ELSE LET f == CHOOSE i \in at : \A j \in at : i <= j IN
              /\ call.outcome.value.success = TRUE
              /\ Len(symbolTable) = Len(before)
              /\ symbolTable[f].name = call.new_name
              /\ symbolTable[f].source = "USER_DEFINED"
              /\ symbolTable[f].address = before[f].address
              /\ symbolTable[f].type = before[f].type
              /\ symbolTable[f].external = before[f].external
              /\ \A i \in (1..Len(before)) \ {f} : symbolTable[i] = before[i]

\* A successful rename at an address that binds two symbols.
C5_Witness ==
  /\ call.op = "rename_symbol"
  /\ call.outcome.value.success
  /\ Cardinality({i \in 1..Len(call.symbolsBefore) :
        /\ ~call.symbolsBefore[i].external
        /\ AddrStr(call.symbolsBefore[i].address) = call.address_str}) = 2
  /\ symbolTable # call.symbolsBefore

\* C6: set_data_type on an address without data fails without invoking the
\* type parser, whatever the type text, and leaves the listing unchanged.
C6_NoParseWithoutData ==
  (/\ call.op = "set_data_type"
   /\ call.address_str # BadAddressText
   /\ LET a == getAddress(call.address_str).value IN
      a \notin Addr \/ call.dataBefore[a] = NoData) =>
    /\ call.outcome.value.success = FALSE
    /\ ~call.parsed
    /\ dataAt = call.dataBefore

\* C7: rename_symbol and set_data_type always return; a fault from address
\* parsing, type parsing, the lookup or the mutation call gives success ==
\* false with the fault's text as message; and every failing call leaves the
\* symbol table and the listing as they were.
C7_FaultsBecomeFailures ==
  call.op \in {"rename_symbol", "set_data_type"} =>
    /\ call.outcome.kind = "return"
    /\ call.fault # <<>> =>
         /\ call.outcome.value.success = FALSE
         /\ call.outcome.value.message = call.fault[1]
    /\ call.address_str = BadAddressText =>
         /\ call.outcome.value.success = FALSE
         /\ call.outcome.value.message = getAddress(call.address_str).fault
    /\ (/\ call.op = "set_data_type"
        /\ call.address_str # BadAddressText
        /\ call.type_str = BadTypeText) =>
         /\ call.outcome.value.success = FALSE
         /\ call.outcome.value.message = parse(call.type_str).fault
    /\ call.engineFault = "lookup" /\ call.address_str # BadAddressText =>
         call.outcome.value.success = FALSE
    /\ ~call.outcome.value.success =>
         /\ symbolTable = call.symbolsBefore
         /\ dataAt = call.dataBefore

\* createData raising on an address that holds data.
C7_Witness ==
  /\ call.op = "set_data_type"
  /\ call.engineFault = "mutate"
  /\ call.fault = <<FaultText("createData")>>
  /\ call.outcome.value.success = FALSE
  /\ dataAt = call.dataBefore

\* C8: decompile_function(None) returns None without calling the decompiler;
\* for a function, when the decompiler call returns, the result is a record
\* exactly when the call reports completion and yields a decompiled text, and
\* None otherwise (timed out, cancelled, nothing printed). A seed address
\* outside every function gives a report with entry_function None, never an
\* ErrorReport on that account.
C8_DecompileOrAbsent ==
  /\ (call.op = "decompile_function" /\ call.function = None) =>
       /\ call.outcome = Return(None)
       /\ ~call.called
  /\ (/\ call.op = "decompile_function"
      /\ call.function # None
      /\ faultStage # "decompile") =>
       /\ call.called
       /\ call.outcome.kind = "return"
       /\ (call.outcome.value # None) <=>
            (/\ decompOutcome # None
             /\ decompOutcome.completed
             /\ decompOutcome.fn # None)
       /\ call.outcome.value # None =>
            /\ call.outcome.value.code = decompOutcome.fn.C
            /\ call.outcome.value.name = call.function.name
  /\ (/\ call.op = "analyze_program"
      /\ ~SeedInFunction
      /\ ~SomeStageFaults) =>
       /\ call.outcome.kind = "return"
       /\ IsAnalysisReport(call.outcome.value)
       /\ call.outcome.value.entry_function = None
       /\ ~call.called

\* A decompilation that timed out with partial text is reported as absent.
C8_Witness ==
  /\ call.op = "decompile_function"
  /\ call.function # None
  /\ call.called
  /\ decompOutcome = [completed |-> FALSE, fn |-> PartialText]
  /\ call.outcome = Return(None)

\* C9: when the engine answers, get_entry_point returns an address: the first
\* entry of the external entry-point table when the table is non-empty, the
\* image's minimum address when it is empty; and the call changes no engine
\* state.
C9_EntryPoint ==
  /\ [](call.op = "get_entry_point" /\ programPresent /\ faultStage # "entry" =>
          /\ call.outcome.kind = "return"
          /\ call.outcome.value \in Addr
          /\ entryPoints # <<>> => call.outcome.value = entryPoints[1]
          /\ entryPoints = <<>> => call.outcome.value = minAddress)
  /\ [][call'.op = "get_entry_point" /\ pc = "start" => UNCHANGED engineVars]_vars

\* A table of two entries, the first above the second and the minimum address.
C9_Witness ==
  /\ call.op = "get_entry_point"
  /\ Len(entryPoints) = 2
  /\ entryPoints[1] > entryPoints[2]
  /\ call.outcome = Return(entryPoints[1])
  /\ call.outcome.value # minAddress

\* The table positions of the symbols that are not external, and the k-th.
InternalPositions == {i \in 1..Len(symbolTable) : ~symbolTable[i].external}
KthInternal(k) ==
  CHOOSE i \in InternalPositions :
    Cardinality({j \in InternalPositions : j < i}) = k - 1

\* C10: a run of analyze_program leaves the symbol table and the listing as
\* they were; only rename_symbol and set_data_type change them; and the report's
\* symbols are exactly the non-external symbols of the table, in table order.
C10_ReadOnlyPipeline ==
  /\ []((/\ call.op = "analyze_program"
         /\ call.outcome.kind = "return"
         /\ IsAnalysisReport(call.outcome.value)) =>
          LET symbols == call.outcome.value.symbols IN
          /\ Len(symbols) = Cardinality(InternalPositions)
          /\ \A k \in 1..Len(symbols) :
               /\ symbols[k].name = symbolTable[KthInternal(k)].name
               /\ symbols[k].address = AddrStr(symbolTable[KthInternal(k)].address)
               /\ symbols[k].type = symbolTable[KthInternal(k)].type
               /\ symbols[k].source = symbolTable[KthInternal(k)].source)
  /\ [][call'.op = "analyze_program" /\ pc = "start" =>
          UNCHANGED <<symbolTable, instrAt, dataAt>>]_vars
  /\ [][<<symbolTable, instrAt, dataAt>>' # <<symbolTable, instrAt, dataAt>> =>
          call'.op \in {"rename_symbol", "set_data_type"}]_vars

\* A report over a table of three symbols, the external one between two others,
\* after a rename.
C10_Witness ==
  /\ call.op = "analyze_program"
  /\ call.outcome.kind = "return"
  /\ IsAnalysisReport(call.outcome.value)
  /\ Len(symbolTable) = 3
  /\ symbolTable[2].external
  /\ Len(call.outcome.value.symbols) = 2
  /\ symbolTable[1].source = "USER_DEFINED"

====
